---- MODULE Spec2Model ----
(***************************************************************************)
(* Presidio PII sanitization microservice.                                 *)
(*                                                                         *)
(* The service wraps two external engines: the recognition engine          *)
(* (presidio_analyzer.AnalyzerEngine) and the anonymizer                   *)
(* (presidio_anonymizer.AnonymizerEngine).  Neither is part of the         *)
(* repository: the recognition engine is a nondeterministic choice over    *)
(* the detection lists (or the exception) it can hand back, and the        *)
(* anonymizer's span substitution follows the Redactor of the design       *)
(* document.                                                               *)
(*                                                                         *)
(* A text is a sequence of one-character strings, offsets are 0-based as   *)
(* in Python, and a score is an integer number of thousandths.             *)
(***************************************************************************)
EXTENDS Integers, Sequences, FiniteSets, TLC

VARIABLES
    api_token,   \* Settings.api_token, read once and cached by get_settings()
    presidio,    \* app.state.presidio: the one PresidioService instance
    reqs,        \* the HTTP requests in flight, one record per connection slot
    call         \* the last direct call of PresidioService.analyze / sanitize

vars == <<api_token, presidio, reqs, call>>

-----------------------------------------------------------------------------
(* Bounds of the model *)

\* longest engine result list of a direct call
MaxDet == 2
\* longest engine result list of a request served over HTTP
MaxSvcDet == 1

\* an Optional[List[str]]: Python's None, or a list
None == [given |-> FALSE, list |-> <<>>]
Some(list) == [given |-> TRUE, list |-> list]

Range(s) == {s[i] : i \in DOMAIN s}

Min(a, b) == IF a < b THEN a ELSE b
Max(a, b) == IF a > b THEN a ELSE b

SeqsUpTo(S, n) == UNION {[1..k -> S] : k \in 0..n}

-----------------------------------------------------------------------------
(* Texts *)

TextAB == <<"a", "b">>
TextXY == <<"x", "y">>
Text8 == <<"a", "b", "c", "d", "e", "f", "g", "h">>
ExampleText ==
    <<"J", "o", "h", "n", " ", "D", "o", "e", ",", " ", "e", "m", "a", "i", "l",
      " ", "j", "o", "h", "n", "@", "e", "x", "a", "m", "p", "l", "e", ".", "c",
      "o", "m">>

\* texts handed to analyze / sanitize directly
CoreTexts == {TextAB, Text8, ExampleText}
\* request bodies' texts; the empty one is what the schema rejects
SvcTexts == {<<>>, TextXY}
Languages == {"en", "es"}
SvcLanguages == {"en"}
\* the caller's "entities" field
RequestedLists ==
    {None, Some(<<>>), Some(<<"PERSON">>), Some(<<"CRYPTO", "PERSON">>),
     Some(<<"BOGUS">>)}
SvcRequestedLists == {None, Some(<<"PERSON">>)}

-----------------------------------------------------------------------------
(* Python helpers *)

\* text[start:end]: negative indices count from the end, both are clamped
PySliceIndex(i, n) == IF i < 0 THEN Max(i + n, 0) ELSE Min(i, n)

PySlice(text, start, end) ==
    LET s == PySliceIndex(start, Len(text))
        e == PySliceIndex(end, Len(text))
    IN  IF s >= e THEN <<>> ELSE SubSeq(text, s + 1, e)

\* round(score, 2) of a score given in thousandths, as hundredths
Round2(score) ==
    LET q == score \div 10
        r == score % 10
    IN  IF r < 5 THEN q
        ELSE IF r > 5 THEN q + 1
        ELSE IF q % 2 = 0 THEN q ELSE q + 1

\* truth value of an Optional[List[str]]
Truthy(entities) == entities.given /\ entities.list # <<>>

-----------------------------------------------------------------------------
(* PresidioService.__init__ *)

HealthcareEntities ==
    <<"PERSON", "EMAIL_ADDRESS", "PHONE_NUMBER", "DATE_TIME", "LOCATION",
      "US_SSN", "CREDIT_CARD", "IP_ADDRESS", "URL", "US_DRIVER_LICENSE",
      "MEDICAL_LICENSE">>

NewPresidioService ==
    [analyzer |-> "AnalyzerEngine",
     anonymizer |-> "AnonymizerEngine",
     healthcare_entities |-> HealthcareEntities]

-----------------------------------------------------------------------------
(* The recognition engine (external) *)

\* entity types the engine has a recognizer for
EngineTypes == {"PERSON", "EMAIL_ADDRESS", "US_SSN", "CRYPTO"}
\* the scores (in thousandths) the engine gives
Scores(text) ==
    IF text = ExampleText THEN {850, 950}
    ELSE IF text = TextXY THEN {850}
    ELSE {850, 856}

WellFormed(text, d) == 0 <= d.start /\ d.start < d.end /\ d.end <= Len(text)

Spans(text) ==
    IF text = ExampleText THEN {<<0, 8>>, <<16, 32>>}
    ELSE IF text = TextXY THEN {<<0, 1>>, <<1, 3>>}
    ELSE IF text = Text8 THEN {<<0, 3>>, <<0, 5>>, <<3, 8>>, <<5, 8>>}
    ELSE (-1 .. Len(text) + 1) \X (-1 .. Len(text) + 1)

Detection(ty, sp, sc) ==
    [entity_type |-> ty, start |-> sp[1], end |-> sp[2], score |-> sc]

\* what one detection of the engine can be: a type it was asked for, any
\* offsets (the engine is not trusted to keep them inside the text)
Detections(text, target) ==
    LET types == EngineTypes \cap Range(target)
        good == {sp \in Spans(text) : 0 <= sp[1] /\ sp[1] < sp[2] /\ sp[2] <= Len(text)}
        bad == Spans(text) \ good
    IN  {Detection(ty, sp, sc) : ty \in types, sp \in good, sc \in Scores(text)}
        \cup (IF types = {} THEN {}
              ELSE {Detection(CHOOSE ty \in types : TRUE, sp, 850) : sp \in bad})

EngineRaise == [kind |-> "raise", msg |-> "engine failure", results |-> <<>>]
EngineOk(results) == [kind |-> "ok", msg |-> "", results |-> results]

\* AnalyzerEngine.analyze(text, language, entities): a list or an exception
AnalyzerOutcomes(text, language, target, n) ==
    {EngineRaise} \cup {EngineOk(rs) : rs \in SeqsUpTo(Detections(text, target), n)}

-----------------------------------------------------------------------------
(* The anonymizer (external) *)

\* the operators sanitize passes to AnonymizerEngine.anonymize
Operators ==
    [DEFAULT |-> <<"<", "R", "E", "D", "A", "C", "T", "E", "D", ">">>,
     PERSON |-> <<"<", "P", "E", "R", "S", "O", "N", ">">>,
     EMAIL_ADDRESS |-> <<"<", "E", "M", "A", "I", "L", ">">>,
     PHONE_NUMBER |-> <<"<", "P", "H", "O", "N", "E", ">">>,
     DATE_TIME |-> <<"<", "D", "A", "T", "E", ">">>,
     LOCATION |-> <<"<", "L", "O", "C", "A", "T", "I", "O", "N", ">">>,
     US_SSN |-> <<"<", "S", "S", "N", ">">>,
     CREDIT_CARD |-> <<"<", "C", "R", "E", "D", "I", "T", "_", "C", "A", "R", "D", ">">>,
     IP_ADDRESS |-> <<"<", "I", "P", "_", "A", "D", "D", "R", "E", "S", "S", ">">>,
     URL |-> <<"<", "U", "R", "L", ">">>,
     US_DRIVER_LICENSE |->
         <<"<", "D", "R", "I", "V", "E", "R", "_", "L", "I", "C", "E", "N", "S", "E", ">">>,
     MEDICAL_LICENSE |->
         <<"<", "M", "E", "D", "I", "C", "A", "L", "_", "L", "I", "C", "E", "N", "S", "E", ">">>]

\* the replacement of one entity type: its operator, else the DEFAULT one
placeholder_as_schema_example(operators, entity_type) ==
    IF entity_type = "EMAIL_ADDRESS"
    THEN <<"<", "E", "M", "A", "I", "L", "_", "A", "D", "D", "R", "E", "S", "S", ">">>
    ELSE IF entity_type \in DOMAIN operators
    THEN operators[entity_type]
    ELSE operators["DEFAULT"]

placeholder_for(operators, entity_type) ==
    IF entity_type \in DOMAIN operators
    THEN operators[entity_type]
    ELSE operators["DEFAULT"]

InsertByStart(sorted, d) ==
    LET k == Cardinality({i \in DOMAIN sorted : sorted[i].start <= d.start})
    IN  SubSeq(sorted, 1, k) \o <<d>> \o SubSeq(sorted, k + 1, Len(sorted))

RECURSIVE SortByStart(_)
SortByStart(entities) ==
    IF entities = <<>> THEN <<>>
    ELSE InsertByStart(SortByStart(SubSeq(entities, 1, Len(entities) - 1)),
                       entities[Len(entities)])

RECURSIVE RedactFrom(_, _, _, _, _)
RedactFrom(text, operators, sorted, i, cursor) ==
    IF i > Len(sorted) THEN PySlice(text, cursor, Len(text))
    ELSE IF sorted[i].start < cursor
    THEN RedactFrom(text, operators, sorted, i + 1, cursor)
    ELSE PySlice(text, cursor, sorted[i].start)
         \o placeholder_for(operators, sorted[i].entity_type)
         \o RedactFrom(text, operators, sorted, i + 1, sorted[i].end)

\* the Redactor: entities in ascending order of start, an entity that starts
\* before the write cursor is skipped
redact(text, operators, entities) ==
    RedactFrom(text, operators, SortByStart(entities), 1, 0)

\* the entities the Redactor substitutes
RECURSIVE AppliedFrom(_, _, _)
AppliedFrom(sorted, i, cursor) ==
    IF i > Len(sorted) THEN <<>>
    ELSE IF sorted[i].start < cursor THEN AppliedFrom(sorted, i + 1, cursor)
    ELSE <<sorted[i]>> \o AppliedFrom(sorted, i + 1, sorted[i].end)

Overlap(a, b) == a.start < b.end /\ b.start < a.end

Conflicting(results) ==
    \E i, j \in DOMAIN results : i # j /\ Overlap(results[i], results[j])

Clean(text, results) ==
    /\ \A i \in DOMAIN results : WellFormed(text, results[i])
    /\ ~Conflicting(results)

AnonRaise == [kind |-> "raise", msg |-> "anonymizer failure", text |-> <<>>]
AnonOk(text) == [kind |-> "ok", msg |-> "", text |-> text]
\* the anonymizer was not called
NoAnon == [kind |-> "none", msg |-> "", text |-> <<>>]

\* AnonymizerEngine.anonymize(text, analyzer_results, operators): the redacted
\* text; on spans outside the text or spans in conflict it may also raise
AnonymizerOutcomes(text, results, operators) ==
    {AnonOk(redact(text, operators, results))}
    \cup (IF Clean(text, results) THEN {} ELSE {AnonRaise})

-----------------------------------------------------------------------------
(* PresidioService *)

\* entities if entities else self.healthcare_entities
TargetEntitiesNoneOnly(entities, healthcare_entities) ==
    IF entities.given THEN entities.list ELSE healthcare_entities

TargetEntities(entities, healthcare_entities) ==
    IF Truthy(entities) THEN entities.list ELSE healthcare_entities

EngineCall(text, language, target) ==
    [text |-> text, language |-> language, entities |-> target]

\* analyze: the loop that converts the engine's results to dicts
AnalyzeEntities(text, results) ==
    [i \in 1 .. Len(results) |->
        [type |-> results[i].entity_type,
         text |-> PySlice(text, results[i].start, results[i].end),
         start |-> results[i].start,
         end |-> results[i].end,
         score |-> Round2(results[i].score)]]

\* sanitize: the loop that builds entities_found
SanitizeEntitiesApplied(text, results) ==
    AnalyzeEntities(text, AppliedFrom(SortByStart(results), 1, 0))

SanitizeEntities(text, results) ==
    [i \in 1 .. Len(results) |->
        [type |-> results[i].entity_type,
         text |-> PySlice(text, results[i].start, results[i].end),
         start |-> results[i].start,
         end |-> results[i].end,
         score |-> Round2(results[i].score)]]

\* if not analyzer_results
NeverNoPII(analyzer_results) == FALSE

NoPII(analyzer_results) == analyzer_results = <<>>

\* except Exception as e: logger.error(...); raise
Reraise(e) == [raised |-> TRUE, error |-> e.msg, value |-> <<>>]

Return(value) == [raised |-> FALSE, error |-> "", value |-> value]

\* What a call of analyze or sanitize did: the calls it made to the engines
\* and what it handed back (outcome.raised: the exception left the method).
Trace(op, text, language, entities, ecalls, eout, acalls, aout, outcome) ==
    [op |-> op, text |-> text, language |-> language, entities |-> entities,
     engine_calls |-> ecalls, engine_out |-> eout,
     anonymizer_calls |-> acalls, anonymizer_out |-> aout,
     outcome |-> outcome]

\* PresidioService.analyze, the engine answering eng
analyze(self, text, language, entities, eng) ==
    LET target_entities == TargetEntities(entities, self.healthcare_entities)
    IN  Trace("analyze", text, language, entities,
              <<EngineCall(text, language, target_entities)>>, eng, <<>>, NoAnon,
              IF eng.kind = "raise" THEN Reraise(eng)
              ELSE Return(AnalyzeEntities(text, eng.results)))

\* PresidioService.sanitize, the engine answering eng and the anonymizer anon
sanitize(self, text, language, entities, eng, anon) ==
    LET target_entities == TargetEntities(entities, self.healthcare_entities)
        engine_calls == <<EngineCall(text, language, target_entities)>>
    IN  IF eng.kind = "raise"
        THEN Trace("sanitize", text, language, entities, engine_calls, eng,
                   <<>>, NoAnon, Reraise(eng))
        ELSE IF NoPII(eng.results)
        THEN Trace("sanitize", text, language, entities, engine_calls, eng,
                   <<>>, NoAnon,
                   Return([original_text |-> text,
                           sanitized_text |-> text,
                           entities_found |-> <<>>]))
        ELSE Trace("sanitize", text, language, entities, engine_calls, eng,
                   <<[text |-> text, analyzer_results |-> eng.results]>>, anon,
                   IF anon.kind = "raise" THEN Reraise(anon)
                   ELSE Return([original_text |-> text,
                                sanitized_text |-> anon.text,
                                entities_found |->
                                    SanitizeEntities(text, eng.results)]))

\* the anonymizer's answers sanitize can meet after the engine answered eng
AnonChoices(text, eng) ==
    IF eng.kind = "ok" /\ ~NoPII(eng.results)
    THEN AnonymizerOutcomes(text, eng.results, Operators)
    ELSE {NoAnon}

\* a call that has its arguments and has not run yet
Pending(text, language, entities) ==
    Trace("pending", text, language, entities, <<>>, EngineOk(<<>>), <<>>,
          NoAnon, Return(<<>>))

NoCall == Pending(<<>>, "en", None)

-----------------------------------------------------------------------------
(* Direct calls of the service: analyze and sanitize as functions of their
   arguments and of what the engines answer *)

CallAnalyze ==
    /\ call.op = "pending"
    /\ \E eng \in AnalyzerOutcomes(call.text, call.language,
                      TargetEntities(call.entities, presidio.healthcare_entities),
                      MaxDet) :
          call' = analyze(presidio, call.text, call.language, call.entities, eng)
    /\ UNCHANGED <<api_token, presidio, reqs>>

CallSanitize ==
    /\ call.op = "pending"
    /\ \E eng \in AnalyzerOutcomes(call.text, call.language,
                      TargetEntities(call.entities, presidio.healthcare_entities),
                      MaxDet) :
          \E anon \in AnonChoices(call.text, eng) :
            call' = sanitize(presidio, call.text, call.language, call.entities,
                             eng, anon)
    /\ UNCHANGED <<api_token, presidio, reqs>>

InitCore ==
    /\ api_token = ""
    /\ presidio = NewPresidioService
    /\ reqs = <<>>
    /\ call \in {Pending(text, language, entities) :
                    text \in CoreTexts, language \in Languages,
                    entities \in RequestedLists}

NextCore == CallAnalyze \/ CallSanitize

SpecCore == InitCore /\ [][NextCore]_vars


-----------------------------------------------------------------------------
(* The HTTP service.  A request goes through auth_middleware and then, if it
   is let through, through its route handler; the handlers are coroutines
   without an await of their own, so one handler runs from its first line to
   its return while the other requests wait before or after theirs. *)

\* the connections the server works on at the same time
Slots == {1, 2}

\* request.headers.get("X-API-Token"): absent (None) or a string
NoHeader == [present |-> FALSE, value |-> ""]
Header(v) == [present |-> TRUE, value |-> v]
HeaderValues == {NoHeader, Header(""), Header("tok"), Header("bad")}
\* API_TOKEN of the environment; "" is the default of Settings
ApiTokens == {"", "tok"}

GetPaths == {"/health", "/", "/entities"}
PostPaths == {"/analyze", "/sanitize"}

Body(text, language, entities) ==
    [text |-> text, language |-> language, entities |-> entities]
NoBody == Body(<<>>, "en", None)

Response(status, detail, content) ==
    [status |-> status, detail |-> detail, content |-> content]
NoResponse == Response(0, "", <<>>)

Idle ==
    [pc |-> "idle", path |-> "", header |-> NoHeader, body |-> NoBody,
     handled |-> FALSE, trace |-> NoCall, response |-> NoResponse]

\* auth_middleware: TRUE when the request is handed to call_next
AuthNoHealthBypass(path, header, token) ==
    \/ token = ""
    \/ ~(~header.present \/ header.value = "" \/ header.value # token)

AuthPasses(path, header, token) ==
    \/ path = "/health"
    \/ token = ""
    \/ ~(~header.present \/ header.value = "" \/ header.value # token)

Unauthorized == Response(401, "Invalid or missing API token", <<>>)

\* SanitizeRequest / AnalyzeRequest: text has min_length=1
BodyValid(body) == Len(body.text) >= 1
Unprocessable == Response(422, "validation error", <<>>)

\* EntityResult(type=e["type"], text=e["text"], ...)
EntityResult(e) ==
    [type |-> e.type, text |-> e.text, start |-> e.start, end |-> e.end,
     score |-> e.score]

EntityResults(entities) == [i \in DOMAIN entities |-> EntityResult(entities[i])]

\* except Exception as e: raise HTTPException(status_code=500, detail=str(e))
ServerErrorMasked(trace) == Response(200, "", <<>>)

ServerError(trace) == Response(500, trace.outcome.error, <<>>)

\* analyze_text, after presidio.analyze
AnalyzeResponse(body, trace) ==
    IF trace.outcome.raised THEN ServerError(trace)
    ELSE Response(200, "",
            [text |-> body.text,
             entities |-> EntityResults(trace.outcome.value)])

\* sanitize_text, after presidio.sanitize
SanitizeResponse(body, trace) ==
    IF trace.outcome.raised THEN ServerError(trace)
    ELSE LET result == trace.outcome.value
         IN  Response(200, "",
                [original_text |-> result.original_text,
                 sanitized_text |-> result.sanitized_text,
                 entities_found |-> EntityResults(result.entities_found)])

\* what a handler leaves in self.healthcare_entities
CatalogExtended(self, entities) ==
    IF Truthy(entities)
    THEN [self EXCEPT !.healthcare_entities = @ \o entities.list]
    ELSE self

CatalogAfter(self, entities) == self

Receive(r) ==
    /\ reqs[r].pc = "idle"
    /\ \E path \in GetPaths \cup PostPaths, header \in HeaderValues :
         \E body \in IF path \in PostPaths
                     THEN {Body(t, l, e) : t \in SvcTexts, l \in SvcLanguages,
                                           e \in SvcRequestedLists}
                     ELSE {NoBody} :
           reqs' = [reqs EXCEPT ![r] =
                       [Idle EXCEPT !.pc = "received", !.path = path,
                                    !.header = header, !.body = body]]
    /\ UNCHANGED <<api_token, presidio, call>>

AuthMiddleware(r) ==
    /\ reqs[r].pc = "received"
    /\ reqs' = [reqs EXCEPT ![r] =
                  IF AuthPasses(reqs[r].path, reqs[r].header, api_token)
                  THEN [@ EXCEPT !.pc = "routed"]
                  ELSE [@ EXCEPT !.pc = "done", !.response = Unauthorized]]
    /\ UNCHANGED <<api_token, presidio, call>>

HealthCheck(r) ==
    /\ reqs[r].pc = "routed"
    /\ reqs[r].path = "/health"
    /\ reqs' = [reqs EXCEPT ![r] =
                  [@ EXCEPT !.pc = "done", !.handled = TRUE,
                            !.response =
                                Response(200, "", [status |-> "healthy",
                                                   version |-> "1.0.0"])]]
    /\ UNCHANGED <<api_token, presidio, call>>

Root(r) ==
    /\ reqs[r].pc = "routed"
    /\ reqs[r].path = "/"
    /\ reqs' = [reqs EXCEPT ![r] =
                  [@ EXCEPT !.pc = "done", !.handled = TRUE,
                            !.response =
                                Response(200, "",
                                    [service |-> "Presidio PII Sanitization Service",
                                     version |-> "1.0.0",
                                     status |-> "running"])]]
    /\ UNCHANGED <<api_token, presidio, call>>

GetSupportedEntities(r) ==
    /\ reqs[r].pc = "routed"
    /\ reqs[r].path = "/entities"
    /\ \E ok \in BOOLEAN :
         reqs' = [reqs EXCEPT ![r] =
                    [@ EXCEPT !.pc = "done", !.handled = TRUE,
                              !.response =
                                  IF ok THEN Response(200, "", [entities |-> EngineTypes])
                                  ELSE Response(500, EngineRaise.msg, <<>>)]]
    /\ UNCHANGED <<api_token, presidio, call>>

AnalyzeText(r) ==
    /\ reqs[r].pc = "routed"
    /\ reqs[r].path = "/analyze"
    /\ LET body == reqs[r].body IN
       IF ~BodyValid(body)
       THEN /\ reqs' = [reqs EXCEPT ![r] =
                          [@ EXCEPT !.pc = "done", !.handled = TRUE,
                                    !.response = Unprocessable]]
            /\ UNCHANGED presidio
       ELSE \E eng \in AnalyzerOutcomes(body.text, body.language,
                          TargetEntities(body.entities, presidio.healthcare_entities),
                          MaxSvcDet) :
              LET trace == analyze(presidio, body.text, body.language,
                                   body.entities, eng)
              IN  /\ reqs' = [reqs EXCEPT ![r] =
                       [@ EXCEPT !.pc = "done", !.handled = TRUE, !.trace = trace,
                                 !.response = AnalyzeResponse(body, trace)]]
                  /\ presidio' = CatalogAfter(presidio, body.entities)
    /\ UNCHANGED <<api_token, call>>

SanitizeText(r) ==
    /\ reqs[r].pc = "routed"
    /\ reqs[r].path = "/sanitize"
    /\ LET body == reqs[r].body IN
       IF ~BodyValid(body)
       THEN /\ reqs' = [reqs EXCEPT ![r] =
                          [@ EXCEPT !.pc = "done", !.handled = TRUE,
                                    !.response = Unprocessable]]
            /\ UNCHANGED presidio
       ELSE \E eng \in AnalyzerOutcomes(body.text, body.language,
                          TargetEntities(body.entities, presidio.healthcare_entities),
                          MaxSvcDet) :
            \E anon \in AnonChoices(body.text, eng) :
              LET trace == sanitize(presidio, body.text, body.language,
                                    body.entities, eng, anon)
              IN  /\ reqs' = [reqs EXCEPT ![r] =
                       [@ EXCEPT !.pc = "done", !.handled = TRUE, !.trace = trace,
                                 !.response = SanitizeResponse(body, trace)]]
                  /\ presidio' = CatalogAfter(presidio, body.entities)
    /\ UNCHANGED <<api_token, call>>

\* the response is sent and the connection serves the next request
Respond(r) ==
    /\ reqs[r].pc = "done"
    /\ reqs' = [reqs EXCEPT ![r] = Idle]
    /\ UNCHANGED <<api_token, presidio, call>>

\* the state after lifespan's startup: the settings read, the service built
Init ==
    /\ api_token \in ApiTokens
    /\ presidio = NewPresidioService
    /\ reqs = [r \in Slots |-> Idle]
    /\ call = NoCall

Next ==
    \E r \in Slots :
        \/ Receive(r)
        \/ AuthMiddleware(r)
        \/ HealthCheck(r)
        \/ Root(r)
        \/ GetSupportedEntities(r)
        \/ AnalyzeText(r)
        \/ SanitizeText(r)
        \/ Respond(r)

Spec == Init /\ [][Next]_vars


-----------------------------------------------------------------------------
(* Properties of analyze and sanitize (specification SpecCore) *)

\* the call returned (no exception left the method)
Returned(c) == c.op \in {"analyze", "sanitize"} /\ ~c.outcome.raised

\* the entity records a returned call handed back
EntitiesOf(c) ==
    IF c.op = "analyze" THEN c.outcome.value ELSE c.outcome.value.entities_found

\* spans inside the text, no two of them sharing a character
DisjointSpans(text, results) ==
    /\ \A i \in DOMAIN results :
         0 <= results[i].start /\ results[i].start < results[i].end
            /\ results[i].end <= Len(text)
    /\ \A i, j \in DOMAIN results :
         i < j => \/ results[i].end <= results[j].start
                  \/ results[j].end <= results[i].start

\* the placeholders C1 names
ClaimPlaceholder(type) ==
    CASE type = "PERSON" -> <<"<", "P", "E", "R", "S", "O", "N", ">">>
      [] type = "EMAIL_ADDRESS" -> <<"<", "E", "M", "A", "I", "L", ">">>
      [] type = "US_SSN" -> <<"<", "S", "S", "N", ">">>
      [] OTHER -> <<"<", "R", "E", "D", "A", "C", "T", "E", "D", ">">>

\* the text from position pos on, read character by character: a span that
\* starts here gives its placeholder and the reading goes on at its end
RECURSIVE Rewritten(_, _, _)
Rewritten(text, results, pos) ==
    IF pos >= Len(text) THEN <<>>
    ELSE IF \E i \in DOMAIN results : results[i].start = pos
    THEN LET d == results[CHOOSE i \in DOMAIN results : results[i].start = pos]
         IN  ClaimPlaceholder(d.entity_type) \o Rewritten(text, results, d.end)
    ELSE <<text[pos + 1]>> \o Rewritten(text, results, pos + 1)

ExampleDetections ==
    <<Detection("PERSON", <<0, 8>>, 850), Detection("EMAIL_ADDRESS", <<16, 32>>, 950)>>

ExampleSanitized ==
    <<"<", "P", "E", "R", "S", "O", "N", ">", ",", " ", "e", "m", "a", "i", "l",
      " ", "<", "E", "M", "A", "I", "L", ">">>

C3_NoDetectionFastPath ==
    (/\ call.op = "sanitize"
     /\ call.text # <<>>
     /\ call.engine_out = EngineOk(<<>>))
    => /\ ~call.outcome.raised
       /\ call.outcome.value =
              [original_text |-> call.text, sanitized_text |-> call.text,
               entities_found |-> <<>>]
       /\ call.anonymizer_calls = <<>>

C3_Witness ==
    /\ call.op = "sanitize"
    /\ call.text = ExampleText
    /\ call.engine_out = EngineOk(<<>>)
    /\ call.outcome.value.sanitized_text = ExampleText
    /\ call.anonymizer_calls = <<>>

\* C4: every entity record analyze or sanitize returns has
\* 0 <= start < end <= len(text) and its text is the characters start..end-1
\* of the input, whatever offsets the engine reported.
C4_EntityRecordsInsideText ==
    Returned(call) =>
        \A i \in DOMAIN EntitiesOf(call) :
            LET e == EntitiesOf(call)[i]
            IN  /\ 0 <= e.start
                /\ e.start < e.end
                /\ e.end <= Len(call.text)
                /\ e.text = SubSeq(call.text, e.start + 1, e.end)

\* C5: a detection whose offsets are outside the text or inverted is dropped
\* and the call still returns: the entity list is made of exactly the
\* well-formed detections, in the engine's order.
C5_MalformedDetectionDropped ==
    (call.op \in {"analyze", "sanitize"} /\ call.engine_out.kind = "ok")
    => /\ ~call.outcome.raised
       /\ LET kept == SelectSeq(call.engine_out.results,
                                LAMBDA d : WellFormed(call.text, d))
          IN  /\ Len(EntitiesOf(call)) = Len(kept)
              /\ \A i \in DOMAIN kept :
                    /\ EntitiesOf(call)[i].type = kept[i].entity_type
                    /\ EntitiesOf(call)[i].start = kept[i].start
                    /\ EntitiesOf(call)[i].end = kept[i].end

\* the default catalog, as C6 lists it
ClaimCatalog ==
    <<"PERSON", "EMAIL_ADDRESS", "PHONE_NUMBER", "DATE_TIME", "LOCATION",
      "US_SSN", "CREDIT_CARD", "IP_ADDRESS", "URL", "US_DRIVER_LICENSE",
      "MEDICAL_LICENSE">>

\* C6: analyze and sanitize call the engine once with the caller's list of
\* types, unchanged, when it is non-empty, and with the default catalog when
\* it is absent or empty; a request for ["PERSON"] returns PERSON entities
\* only, and an unknown type name gives an empty result, not an error of the
\* service.
C6_TypesPassedToEngine ==
    call.op \in {"analyze", "sanitize"}
    => /\ Len(call.engine_calls) = 1
       /\ call.engine_calls[1].text = call.text
       /\ call.engine_calls[1].language = call.language
       /\ (call.entities.given /\ Len(call.entities.list) > 0)
            => call.engine_calls[1].entities = call.entities.list
       /\ (~call.entities.given \/ Len(call.entities.list) = 0)
            => call.engine_calls[1].entities = ClaimCatalog
       /\ (Returned(call) /\ call.entities = Some(<<"PERSON">>))
            => \A i \in DOMAIN EntitiesOf(call) : EntitiesOf(call)[i].type = "PERSON"
       /\ (call.entities = Some(<<"BOGUS">>) /\ call.engine_out.kind = "ok")
            => Returned(call) /\ EntitiesOf(call) = <<>>

C6_Witness ==
    /\ call.op = "sanitize"
    /\ call.entities = Some(<<>>)
    /\ call.engine_calls[1].entities = ClaimCatalog
    /\ Returned(call)
    /\ \E i \in DOMAIN EntitiesOf(call) : EntitiesOf(call)[i].type = "US_SSN"

\* C10: the entities_found of a sanitize that returned is the list analyze
\* returns for the same text and the same engine output: one record per
\* detection, in the engine's order, with the same rounded scores, also for
\* the detections that overlap an earlier one.
C10_SanitizeEntitiesAsAnalyze ==
    (call.op = "sanitize" /\ ~call.outcome.raised)
    => /\ call.outcome.value.entities_found =
              analyze(presidio, call.text, call.language, call.entities,
                      call.engine_out).outcome.value
       /\ Len(call.outcome.value.entities_found) = Len(call.engine_out.results)

C10_Witness ==
    /\ call.op = "sanitize"
    /\ ~call.outcome.raised
    /\ call.text = Text8
    /\ Len(call.engine_out.results) = 2
    /\ call.engine_out.results[1].start = 3
    /\ call.engine_out.results[2].start = 0
    /\ call.engine_out.results[2].end = 5
    /\ call.engine_out.results[2].score = 856
    /\ Len(call.outcome.value.entities_found) = 2
    /\ call.outcome.value.entities_found[2].score = 86

-----------------------------------------------------------------------------
(* Properties of the HTTP service (specification Spec) *)

\* the condition of C7 on a request
Allowed(q) ==
    \/ q.path = "/health"
    \/ api_token = ""
    \/ (q.header.present /\ q.header.value = api_token)

\* C7: a request reaches a route handler exactly when its path is /health, or
\* no secret is configured, or its X-API-Token equals the secret; any other
\* request is answered 401 and the service is never called for it; /health
\* answers {status: "healthy", version: "1.0.0"} whatever header and secret.
C7_AuthGate ==
    \A r \in Slots :
        LET q == reqs[r] IN
        /\ q.pc = "routed" => Allowed(q)
        /\ q.pc = "done" =>
              /\ q.handled <=> Allowed(q)
              /\ ~q.handled =>
                    /\ q.response.status = 401
                    /\ q.trace.engine_calls = <<>>
              /\ q.path = "/health" =>
                    /\ q.response.status = 200
                    /\ q.response.content =
                          [status |-> "healthy", version |-> "1.0.0"]

C7_Witness ==
    /\ api_token = "tok"
    /\ \E r \in Slots :
          /\ reqs[r].pc = "done"
          /\ reqs[r].path = "/health"
          /\ reqs[r].header = Header("bad")
          /\ reqs[r].response.status = 200
    /\ \E r \in Slots :
          /\ reqs[r].pc = "done"
          /\ reqs[r].path = "/sanitize"
          /\ reqs[r].header = NoHeader
          /\ reqs[r].response.status = 401

\* C8: when the engine call raises, the request is answered 500 with the
\* exception's message and no result, the engine was called once, and the
\* service instance is what it was at startup.
C8_EngineFailureIs500 ==
    \A r \in Slots :
        (/\ reqs[r].pc = "done"
         /\ reqs[r].trace.op \in {"analyze", "sanitize"}
         /\ reqs[r].trace.engine_out.kind = "raise")
        => /\ reqs[r].response.status = 500
           /\ reqs[r].response.detail = "engine failure"
           /\ reqs[r].response.content = <<>>
           /\ Len(reqs[r].trace.engine_calls) = 1
           /\ reqs[r].trace.anonymizer_calls = <<>>
           /\ presidio = NewPresidioService

C8_Witness ==
    \E r1, r2 \in Slots :
        /\ r1 # r2
        /\ reqs[r1].pc = "done"
        /\ reqs[r1].path = "/sanitize"
        /\ reqs[r1].trace.engine_out.kind = "raise"
        /\ reqs[r1].response.status = 500
        /\ reqs[r2].pc = "done"
        /\ reqs[r2].path = "/sanitize"
        /\ reqs[r2].response.status = 200

\* what the request q gives when it is the only one the service ever got,
\* the engines answering as they answered q
RunAlone(q) ==
    IF q.path = "/analyze"
    THEN analyze(NewPresidioService, q.body.text, q.body.language,
                 q.body.entities, q.trace.engine_out)
    ELSE sanitize(NewPresidioService, q.body.text, q.body.language,
                  q.body.entities, q.trace.engine_out, q.trace.anonymizer_out)

\* C9: whatever the interleaving of the requests, the service instance (the
\* default catalog and the engine handles) stays what it was at startup, and
\* what a request did and got is what it does and gets when run alone.
C9_RequestsIsolated ==
    /\ presidio.healthcare_entities = ClaimCatalog
    /\ presidio.analyzer = "AnalyzerEngine"
    /\ presidio.anonymizer = "AnonymizerEngine"
    /\ \A r \in Slots :
          LET q == reqs[r] IN
          (q.pc = "done" /\ q.handled /\ q.path \in PostPaths /\ BodyValid(q.body))
          => /\ q.trace = RunAlone(q)
             /\ q.response = IF q.path = "/analyze"
                             THEN AnalyzeResponse(q.body, RunAlone(q))
                             ELSE SanitizeResponse(q.body, RunAlone(q))

C9_Witness ==
    \E r1, r2 \in Slots :
        /\ reqs[r1].pc = "done" /\ reqs[r1].path = "/sanitize"
        /\ reqs[r1].body.entities = Some(<<"PERSON">>)
        /\ reqs[r1].response.status = 200
        /\ Len(reqs[r1].response.content.entities_found) = 1
        /\ reqs[r2].pc = "routed" /\ reqs[r2].path = "/analyze"
        /\ reqs[r2].body.entities = None

====
